---------------------------- MODULE Spec2Model ----------------------------
(***************************************************************************)
(* Model of the LazyDevWorkflowServer ticket tool, in its two builds:      *)
(*   - src/src/index.ts   : tool "get-linear-tickets", raw GraphQL query   *)
(*                          sent with fetch;                               *)
(*   - src/build/index.js : tool "get-linear-tickets-v1", @linear/sdk      *)
(*                          client with lazily resolved relations.         *)
(*                                                                         *)
(* A string is a sequence of tokens.  The fixed pieces of the template     *)
(* literals of the source are single tokens ("Ticket ID: ", "\n\n---\n\n"),*)
(* and the strings that come from the caller or from the remote service    *)
(* (description, titles, error messages, ticket descriptions) are          *)
(* sequences of tokens of their own alphabet.                              *)
(***************************************************************************)
EXTENDS Integers, Sequences, FiniteSets, TLC

VARIABLES
    description,   \* the tool's argument
    envKey,        \* process.env.LINEAR_API_KEY is set
    svc,           \* how the remote service behaves during the invocation
    rawPc,         \* position of the get-linear-tickets handler
    rawResp,       \* what it returned
    rawRequests,   \* requests it issued to the remote service
    sdkPc,         \* position of the get-linear-tickets-v1 handler
    sdkResp,       \* what it returned
    sdkRequests,   \* calls of linearClient.issues it made
    cbPc,          \* per ticket: the await its map callback stands at
    results,       \* the value array of Promise.all
    allState,      \* the promise Promise.all returned
    outOfOrder     \* history: a callback fulfilled before one of a lower index

vars == <<description, envKey, svc, rawPc, rawResp, rawRequests,
          sdkPc, sdkResp, sdkRequests, cbPc, results, allState, outOfOrder>>

rawVars == <<rawPc, rawResp, rawRequests>>
sdkVars == <<sdkPc, sdkResp, sdkRequests, cbPc, results, allState, outOfOrder>>
envVars == <<description, envKey, svc>>

----------------------------------------------------------------------------
(* Bounds of the model *)

\* longest ticket list whose relation lookups are interleaved
MaxNodes == 3
\* longest ticket list the remote service returns to the raw-query handler
MaxRawNodes == 6
\* most errors in a reported error array
MaxErrors == 2

(* Program constants *)

\* first: 5 of the filter document
First == 5
\* substring(0, 200)
DescLimit == 200

----------------------------------------------------------------------------
(* Values *)

\* undefined / null of a relation or of a relation's name
Undefined == "undefined"

Min(a, b) == IF a < b THEN a ELSE b

\* the tickets of the remote service; every optional field is present on
\* some tickets and absent on others, and the descriptions are empty,
\* short, exactly DescLimit long and longer
DescLenOf(i) ==
    CASE i = 1 -> 0
      [] i = 2 -> 2
      [] i = 3 -> 3
      [] i = 4 -> 1
      [] i = 5 -> DescLimit
      [] i = 6 -> DescLimit + 1
      [] OTHER -> DescLimit + i

DescOf(i) == [k \in 1..DescLenOf(i) |-> IF k % 2 = 1 THEN "x" ELSE "y"]

Ticket(i) ==
    [ identifier  |-> "ACA-" \o ToString(i),
      title       |-> "Title " \o ToString(i),
      state       |-> IF i % 2 = 1 THEN "Todo" ELSE Undefined,
      assignee    |-> IF i % 3 = 0 THEN "Ann" ELSE Undefined,
      project     |-> IF i % 2 = 0 THEN "Web" ELSE Undefined,
      url         |-> "https://linear.app/issue/ACA-" \o ToString(i),
      description |-> DescOf(i) ]

\* the sequences without repetition over S, up to length n
InjSeqs(S, n) ==
    UNION { { s \in [1..k -> S] : \A a, b \in 1..k : a # b => s[a] # s[b] }
            : k \in 0..n }

\* the messages the remote service reports, the second with a quote in it
ErrorMessage(k) ==
    IF k % 2 = 1 THEN <<"Authentication required">>
                 ELSE <<"Unknown field ", "\"", "nodes", "\"">>

ErrorArray(n) == [k \in 1..n |-> [message |-> ErrorMessage(k)]]

Descriptions == { <<"l", "o", "g", "i", "n">>, <<"u", "i">> }

\* One behaviour of the remote service: the shapes the raw-query handler
\* tells apart at src/src/index.ts 87-117.
SvcBase ==
    [ kind       |-> "nodes",   \* netfail, status, errors, nodata, noissues, nonodes, nodes
      status     |-> "200",
      statusText |-> "OK",
      body       |-> <<>>,      \* response.text() of a non-success answer
      errors     |-> <<>>,      \* the errors array of the JSON document
      nodes      |-> <<>> ]     \* data.issues.nodes, as ticket numbers

Behaviours(lists) ==
       { [SvcBase EXCEPT !.kind = k] : k \in {"netfail", "nodata", "noissues", "nonodes"} }
  \cup { [SvcBase EXCEPT !.kind = "status", !.status = "401",
                         !.statusText = "Unauthorized",
                         !.body = <<"{", "denied", "}">>] }
  \cup { [SvcBase EXCEPT !.kind = "errors", !.errors = ErrorArray(n)] : n \in 1..MaxErrors }
  \cup { [SvcBase EXCEPT !.nodes = l] : l \in lists }

----------------------------------------------------------------------------
(* Strings *)

RECURSIVE Join(_, _)
\* Array.prototype.join
Join(parts, sep) ==
    IF Len(parts) = 0 THEN <<>>
    ELSE IF Len(parts) = 1 THEN parts[1]
    ELSE parts[1] \o sep \o Join(Tail(parts), sep)

\* String.prototype.substring(0, n)
Substring(s, n) == SubSeq(s, 1, Min(Len(s), n))

\* the escapes of JSON.stringify inside a string
EscapeJSON(s) ==
    [k \in 1..Len(s) |->
        CASE s[k] = "\"" -> "\\\""
          [] s[k] = "\\" -> "\\\\"
          [] OTHER -> s[k]]

\* JSON.stringify(data.errors)
JSONStringify(errs) ==
    <<"[">> \o
    Join([k \in 1..Len(errs) |->
            <<"{\"message\":", "\"">> \o EscapeJSON(errs[k].message) \o <<"\"", "}">>],
         <<",">>)
    \o <<"]">>

TextResponse(text) == [content |-> << [type |-> "text", text |-> text] >>]

NoResponse == [content |-> <<>>]

----------------------------------------------------------------------------
(* What the two handlers share, line for line *)

Separator == <<"\n\n---\n\n">>

\* x?.name || fallback
OrElse(name, fallback) == IF name = Undefined \/ name = "" THEN fallback ELSE name

FormatTicket(t) ==
    <<"Ticket ID: ", t.identifier, "\n",
      "Title: ", t.title, "\n",
      "Status: ", OrElse(t.state, "N/A"), "\n",
      "Assignee: ", OrElse(t.assignee, "Unassigned"), "\n",
      "Project: ", OrElse(t.project, "N/A"), "\n",
      "URL: ", t.url, "\n",
      "Description: ">> \o
    (IF t.description # <<>>
       THEN Substring(t.description, DescLimit) \o <<"...">>
       ELSE <<"No description">>)

NoTicketsText(d) == <<"No Linear tickets found for: \"">> \o d \o <<"\"">>

FoundText(d, n, formattedTickets) ==
    <<"Found ", ToString(n), " ticket(s) for \"">> \o d \o <<"\":\n\n">> \o formattedTickets

\* the emptiness test with its length check left out
NoNodesOnlyMissing(hasNodes, nodes) == ~hasNodes

\* !nodes || nodes.length === 0
NoNodes(hasNodes, nodes) == ~hasNodes \/ Len(nodes) = 0


\* catch (error): the text of both handlers' catch blocks
FailedText(message) == <<"Failed to fetch issues from Linear: ">> \o message

\* the message of the TypeError a property read of undefined throws
TypeErrorMessage(prop) ==
    <<"Cannot read properties of undefined (reading '", prop, "')">>

----------------------------------------------------------------------------
(* get-linear-tickets, src/src/index.ts *)

\* const LINEAR_API_KEY = "lin_api_..." : a literal, never empty
RawApiKey == <<"lin_api_", "literal">>

MissingKeyText == <<"LINEAR_API_KEY environment variable is not set.">>

\* the JSON document of a successful answer
HasData(s)   == s.kind \notin {"nodata"}
HasIssues(s) == s.kind \notin {"nodata", "noissues"}
HasNodes(s)  == s.kind = "nodes"

\* tickets.map(...).join("\n\n---\n\n")
RawFormattedTickets(nodes) ==
    Join([k \in 1..Len(nodes) |-> FormatTicket(Ticket(nodes[k]))], Separator)

\* the handler from the settling of fetch to its return: lines 85-140
RawAfterFetch(d, s) ==
    IF s.kind = "netfail"
      THEN FailedText(<<"fetch failed">>)
    ELSE IF s.kind = "status"
      THEN <<"Error fetching from Linear API: ", s.status, " ", s.statusText, " - ">>
           \o s.body
    ELSE IF s.kind = "errors"
      THEN <<"Linear API GraphQL Error: ">> \o JSONStringify(s.errors)
    ELSE IF ~HasData(s)
      THEN FailedText(TypeErrorMessage("issues"))
    ELSE IF ~HasIssues(s)
      THEN FailedText(TypeErrorMessage("nodes"))
    ELSE IF NoNodes(HasNodes(s), s.nodes)
      THEN NoTicketsText(d)
    ELSE FoundText(d, Len(s.nodes), RawFormattedTickets(s.nodes))

\* the handler is called: the credential check, then fetch is issued
RawInvoke ==
    /\ rawPc = "idle"
    /\ IF RawApiKey = <<>>
         THEN /\ rawResp' = TextResponse(MissingKeyText)
              /\ rawPc' = "returned"
              /\ UNCHANGED rawRequests
         ELSE /\ rawRequests' = rawRequests + 1
              /\ rawPc' = "fetching"
              /\ UNCHANGED rawResp
    /\ UNCHANGED <<envVars, sdkVars>>

\* fetch settles, and the handler runs to its return
RawFetchSettled ==
    /\ rawPc = "fetching"
    /\ rawResp' = TextResponse(RawAfterFetch(description, svc))
    /\ rawPc' = "returned"
    /\ UNCHANGED <<rawRequests, envVars, sdkVars>>

----------------------------------------------------------------------------
(* The raw-query handler alone, on ticket lists up to MaxRawNodes *)

RawLists ==
    InjSeqs(1..MaxNodes, MaxNodes) \cup { [k \in 1..n |-> k] : n \in 1..MaxRawNodes }

InitHandlers ==
    /\ rawPc = "idle"
    /\ rawResp = NoResponse
    /\ rawRequests = 0
    /\ sdkPc = "idle"
    /\ sdkResp = NoResponse
    /\ sdkRequests = 0
    /\ cbPc = <<>>
    /\ results = <<>>
    /\ allState = [status |-> "none", reason |-> <<>>]
    /\ outOfOrder = FALSE

InitRaw ==
    /\ description \in Descriptions
    /\ envKey \in BOOLEAN
    /\ svc \in Behaviours(RawLists)
    /\ InitHandlers

NextRaw == RawInvoke \/ RawFetchSettled

SpecRaw == InitRaw /\ [][NextRaw]_vars

----------------------------------------------------------------------------
(* get-linear-tickets-v1, src/build/index.js *)

\* An error the SDK rejects with: its message and, when it carries the
\* errors the service reported, their array.
SdkError(message, hasErrors, errors) ==
    [message |-> message, hasErrors |-> hasErrors, errors |-> errors]

\* How linearClient.issues(...) settles for a behaviour of the service.  A
\* document without its result container either makes the SDK reject or
\* comes back as a connection without nodes: the source does not say which.
SdkIssuesOutcomes(s) ==
    CASE s.kind = "nodes" ->
           { [ok |-> TRUE, hasNodes |-> TRUE, nodes |-> s.nodes,
              error |-> SdkError(<<>>, FALSE, <<>>)] }
      [] s.kind = "netfail" ->
           { [ok |-> FALSE, hasNodes |-> FALSE, nodes |-> <<>>,
              error |-> SdkError(<<"fetch failed">>, FALSE, <<>>)] }
      [] s.kind = "status" ->
           { [ok |-> FALSE, hasNodes |-> FALSE, nodes |-> <<>>,
              error |-> SdkError(<<s.status, " ", s.statusText>>, FALSE, <<>>)] }
      [] s.kind = "errors" ->
           { [ok |-> FALSE, hasNodes |-> FALSE, nodes |-> <<>>,
              error |-> SdkError(s.errors[1].message, TRUE, s.errors)] }
      [] OTHER ->
           { [ok |-> FALSE, hasNodes |-> FALSE, nodes |-> <<>>,
              error |-> SdkError(TypeErrorMessage("nodes"), FALSE, <<>>)],
             [ok |-> TRUE, hasNodes |-> FALSE, nodes |-> <<>>,
              error |-> SdkError(<<>>, FALSE, <<>>)] }

\* the catch block, lines 80-90
SdkCatchText(error) ==
    FailedText(IF error.hasErrors
                 THEN Join([k \in 1..Len(error.errors) |-> error.errors[k].message],
                           <<", ">>)
                 ELSE error.message)

\* the three awaits of a map callback, in their order: state, assignee, project
NextRelation(r) ==
    CASE r = "state" -> "assignee"
      [] r = "assignee" -> "project"
      [] OTHER -> "done"

\* slot of a callback that has not fulfilled
Pending == <<"pending">>

\* Promise.all filling its value array in the order the promises fulfil
PromiseAllAppend(vals, i, v) ==
    LET free == { k \in 1..Len(vals) : vals[k] = Pending }
        k0 == CHOOSE k \in free : \A j \in free : k <= j
    IN  [vals EXCEPT ![k0] = v]

\* Promise.all keeps each value at the index of its promise
PromiseAllStore(vals, i, v) == [vals EXCEPT ![i] = v]

\* the handler is called: the client is constructed outside the try block,
\* and the constructor of LinearClient throws when it is given no apiKey;
\* otherwise linearClient.issues is issued
SdkInvoke ==
    /\ sdkPc = "idle"
    /\ IF ~envKey
         THEN /\ sdkPc' = "thrown"
              /\ UNCHANGED sdkRequests
         ELSE /\ sdkPc' = "awaitIssues"
              /\ sdkRequests' = sdkRequests + 1
    /\ UNCHANGED <<sdkResp, cbPc, results, allState, outOfOrder, envVars, rawVars>>

\* linearClient.issues settles: the catch block, the empty answer, or the
\* map callbacks start, each at its first await
SdkIssuesSettled ==
    /\ sdkPc = "awaitIssues"
    /\ \E o \in SdkIssuesOutcomes(svc) :
         IF ~o.ok
           THEN /\ sdkResp' = TextResponse(SdkCatchText(o.error))
                /\ sdkPc' = "returned"
                /\ UNCHANGED <<sdkRequests, cbPc, results, allState>>
         ELSE IF NoNodes(o.hasNodes, o.nodes)
           THEN /\ sdkResp' = TextResponse(NoTicketsText(description))
                /\ sdkPc' = "returned"
                /\ UNCHANGED <<sdkRequests, cbPc, results, allState>>
         ELSE /\ cbPc' = [k \in 1..Len(o.nodes) |-> "state"]
              /\ results' = [k \in 1..Len(o.nodes) |-> Pending]
              /\ allState' = [status |-> "pending", reason |-> SdkError(<<>>, FALSE, <<>>)]
              /\ sdkPc' = "awaitAll"
              /\ UNCHANGED <<sdkResp, sdkRequests>>
    /\ UNCHANGED <<outOfOrder, envVars, rawVars>>

\* a relation lookup of ticket i resolves: the callback goes on to its next
\* await, or returns its block, which fulfils its promise
LookupResolve(i) ==
    /\ i \in DOMAIN cbPc
    /\ cbPc[i] \in {"state", "assignee", "project"}
    /\ LET next == NextRelation(cbPc[i]) IN
       /\ cbPc' = [cbPc EXCEPT ![i] = next]
       /\ IF next = "done"
            THEN /\ results' = PromiseAllStore(results, i, FormatTicket(Ticket(svc.nodes[i])))
                 /\ outOfOrder' = (outOfOrder \/ \E k \in 1..(i - 1) : cbPc[k] # "done")
                 /\ allState' = IF /\ allState.status = "pending"
                                   /\ \A k \in DOMAIN cbPc' : cbPc'[k] = "done"
                                  THEN [allState EXCEPT !.status = "fulfilled"]
                                  ELSE allState
            ELSE UNCHANGED <<results, outOfOrder, allState>>
    /\ UNCHANGED <<sdkPc, sdkResp, sdkRequests, envVars, rawVars>>

\* a relation lookup of ticket i rejects: the callback's promise rejects,
\* and Promise.all rejects with the first such reason
LookupReject(i) ==
    /\ i \in DOMAIN cbPc
    /\ cbPc[i] \in {"state", "assignee", "project"}
    /\ allState' = IF allState.status = "pending"
                     THEN [status |-> "rejected",
                           reason |-> SdkError(<<"Entity not found: ", cbPc[i]>>,
                                               FALSE, <<>>)]
                     ELSE allState
    /\ cbPc' = [cbPc EXCEPT ![i] = "rejected"]
    /\ UNCHANGED <<sdkPc, sdkResp, sdkRequests, results, outOfOrder, envVars, rawVars>>

\* await Promise.all(...) settles: the digest, or the catch block
SdkAllSettled ==
    /\ sdkPc = "awaitAll"
    /\ allState.status \in {"fulfilled", "rejected"}
    /\ sdkResp' = TextResponse(
         IF allState.status = "fulfilled"
           THEN FoundText(description, Len(svc.nodes), Join(results, Separator))
           ELSE SdkCatchText(allState.reason))
    /\ sdkPc' = "returned"
    /\ UNCHANGED <<sdkRequests, cbPc, results, allState, outOfOrder, envVars, rawVars>>

----------------------------------------------------------------------------
(* Both handlers, invoked with the same description against the same      *)
(* behaviour of the remote service                                         *)

Lists == InjSeqs(1..MaxNodes, MaxNodes)

Init ==
    /\ description \in Descriptions
    /\ envKey \in BOOLEAN
    /\ svc \in Behaviours(Lists)
    /\ InitHandlers

Next ==
    \/ RawInvoke
    \/ RawFetchSettled
    \/ SdkInvoke
    \/ SdkIssuesSettled
    \/ \E i \in 1..MaxNodes : LookupResolve(i)
    \/ \E i \in 1..MaxNodes : LookupReject(i)
    \/ SdkAllSettled

Spec == Init /\ [][Next]_vars

----------------------------------------------------------------------------
(* Reading a response back *)

IsTextResponse(resp) ==
    /\ Len(resp.content) >= 1
    /\ \A k \in 1..Len(resp.content) : resp.content[k].type = "text"

TextOf(resp) == resp.content[1].text

Positions(text, tok) == { p \in 1..Len(text) : text[p] = tok }

\* the p of Positions(text, tok) with k - 1 others before it
KthPosition(text, tok, k) ==
    CHOOSE p \in Positions(text, tok) :
        Cardinality({ q \in Positions(text, tok) : q < p }) = k - 1

NumBlocks(text) == Cardinality(Positions(text, "Ticket ID: "))

NumSeparators(text) == Cardinality(Positions(text, Separator[1]))

\* the identifiers of the blocks, in the order of the text
BlockIds(text) ==
    [k \in 1..NumBlocks(text) |-> text[KthPosition(text, "Ticket ID: ", k) + 1]]

\* what follows "Description: " in the k-th block, up to the separator or the end
DescLine(text, k) ==
    LET from == KthPosition(text, "Description: ", k) + 1
        seps == { q \in Positions(text, Separator[1]) : q >= from }
        to   == IF seps = {} THEN Len(text)
                ELSE (CHOOSE q \in seps : \A r \in seps : q <= r) - 1
    IN  SubSeq(text, from, to)

Contains(text, sub) ==
    \E k \in 0..(Len(text) - Len(sub)) : SubSeq(text, k + 1, k + Len(sub)) = sub

RawFinished == rawPc \notin {"idle", "fetching"}
SdkFinished == sdkPc \notin {"idle", "awaitIssues", "awaitAll"}

IsDigest(resp) == IsTextResponse(resp) /\ TextOf(resp)[1] = "Found "

----------------------------------------------------------------------------
(* The claims *)

\* C1: whatever the remote service and the credential configuration do, a
\* finished invocation of either handler has returned a response whose
\* content is text; none ends as a thrown exception.
C1_AlwaysReturnsText ==
    /\ RawFinished => rawPc = "returned" /\ IsTextResponse(rawResp)
    /\ SdkFinished => sdkPc = "returned" /\ IsTextResponse(sdkResp)

\* C2: with no credential configured, a finished invocation has returned
\* the text naming the missing credential and has issued no request.
C2_MissingKeyNoRequest ==
    /\ (RawApiKey = <<>> /\ RawFinished) =>
          /\ rawPc = "returned"
          /\ TextOf(rawResp) = MissingKeyText
          /\ rawRequests = 0
    /\ (~envKey /\ SdkFinished) =>
          /\ sdkPc = "returned"
          /\ IsTextResponse(sdkResp)
          /\ Contains(TextOf(sdkResp), MissingKeyText)
          /\ sdkRequests = 0

\* C3: for every non-empty list the remote service returns, of any length,
\* the text holds min(length, 5) ticket blocks and its header counts them.
C3_CappedAtFive ==
    (rawPc = "returned" /\ svc.kind = "nodes" /\ Len(svc.nodes) > 0) =>
        /\ NumBlocks(TextOf(rawResp)) = Min(Len(svc.nodes), First)
        /\ TextOf(rawResp)[1] = "Found "
        /\ TextOf(rawResp)[2] = ToString(NumBlocks(TextOf(rawResp)))

IsNoTicketsAnswer(resp, d) ==
    /\ Len(resp.content) = 1
    /\ resp.content[1].type = "text"
    /\ LET text == resp.content[1].text IN
       /\ Len(text) = Len(d) + 2
       /\ text[1] = "No Linear tickets found for: \""
       /\ SubSeq(text, 2, Len(text) - 1) = d
       /\ text[Len(text)] = "\""
       /\ NumSeparators(text) = 0
       /\ NumBlocks(text) = 0

\* C4: when the remote service answers with an empty list, each handler
\* returns exactly one text block, which says that no tickets were found,
\* quotes the description as passed, and holds no separator and no block.
C4_EmptyResult ==
    (svc.kind = "nodes" /\ svc.nodes = <<>>) =>
        /\ rawPc = "returned" => IsNoTicketsAnswer(rawResp, description)
        /\ sdkPc = "returned" => IsNoTicketsAnswer(sdkResp, description)

C4_Witness ==
    /\ svc.kind = "nodes" /\ svc.nodes = <<>>
    /\ rawPc = "returned"
    /\ sdkPc = "returned"

ReportedMessages == Join([k \in 1..Len(svc.errors) |-> svc.errors[k].message], <<", ">>)

\* C5: when the remote service reports an array of errors, the text of
\* each handler holds every reported message, joined by a comma.
C5_MessagesJoined ==
    svc.kind = "errors" =>
        /\ rawPc = "returned" => Contains(TextOf(rawResp), ReportedMessages)
        /\ sdkPc = "returned" => Contains(TextOf(sdkResp), ReportedMessages)

\* C6: in the SDK handler, when a relation lookup has rejected, the handler
\* returns only once every lookup of every ticket has settled, and it
\* returns the digest with one block per ticket.
C6_RejectionTolerated ==
    (sdkPc = "returned" /\ \E k \in DOMAIN cbPc : cbPc[k] = "rejected") =>
        /\ \A k \in DOMAIN cbPc : cbPc[k] \in {"done", "rejected"}
        /\ IsDigest(sdkResp)
        /\ NumBlocks(TextOf(sdkResp)) = Len(svc.nodes)

\* C7: in the raw-query handler a non-success status, an errors array and
\* a missing result container each give a failure text with a reason of
\* its own, and a missing container is never reported as "no tickets
\* found", which is the answer to a present, empty list.
C7_DistinctReasons ==
    rawPc = "returned" =>
        LET reason == TextOf(rawResp)[1] IN
        /\ svc.kind = "status" => reason = "Error fetching from Linear API: "
        /\ svc.kind = "errors" => reason = "Linear API GraphQL Error: "
        /\ svc.kind \in {"nodata", "noissues", "nonodes"} =>
              reason \notin { "Error fetching from Linear API: ",
                              "Linear API GraphQL Error: ",
                              "No Linear tickets found for: \"",
                              "Found " }
        /\ (svc.kind = "nodes" /\ svc.nodes = <<>>) =>
              reason = "No Linear tickets found for: \""

DescriptionShown(d) ==
    IF Len(d) > DescLimit THEN SubSeq(d, 1, DescLimit) \o <<"...">> ELSE d

DescLinesAsClaimed(resp) ==
    \A k \in 1..Len(svc.nodes) :
        LET d == Ticket(svc.nodes[k]).description IN
        d # <<>> => DescLine(TextOf(resp), k) = DescriptionShown(d)

\* C8: the Description line of a block shows the first 200 characters of
\* the ticket's description, followed by "..." if and only if the
\* description is longer than 200 characters.
C8_EllipsisIffTruncated ==
    /\ (rawPc = "returned" /\ IsDigest(rawResp)) => DescLinesAsClaimed(rawResp)
    /\ (sdkPc = "returned" /\ IsDigest(sdkResp)) => DescLinesAsClaimed(sdkResp)

\* C9: for the same description and the same behaviour of the remote
\* service, the two handlers return the same response.
C9_SameResponse ==
    (/\ envKey
     /\ RawFinished
     /\ SdkFinished
     /\ \A k \in DOMAIN cbPc : cbPc[k] # "rejected") =>
        /\ rawPc = sdkPc
        /\ rawResp = sdkResp

ServiceOrder == [k \in 1..Len(svc.nodes) |-> Ticket(svc.nodes[k]).identifier]

\* C10: the blocks of a returned digest stand in the order in which the
\* remote service returned the tickets, in both handlers and whatever the
\* order in which the relation lookups of the SDK handler complete.
C10_ServiceOrder ==
    /\ (rawPc = "returned" /\ IsDigest(rawResp)) =>
          BlockIds(TextOf(rawResp)) = ServiceOrder
    /\ (sdkPc = "returned" /\ IsDigest(sdkResp)) =>
          BlockIds(TextOf(sdkResp)) = ServiceOrder

\* both digests returned, a later callback of the SDK handler having
\* fulfilled before an earlier one
C10_Witness ==
    /\ sdkPc = "returned" /\ IsDigest(sdkResp)
    /\ rawPc = "returned" /\ IsDigest(rawResp)
    /\ Len(svc.nodes) >= 2
    /\ outOfOrder
    /\ svc.nodes[1] > svc.nodes[2]

=============================================================================
